---- MODULE Spec2Model ----
(***************************************************************************)
(* A model of utils/watermark.py: the invisible-character embedding of     *)
(* text.  A string is a sequence of codepoints; a codepoint is written as  *)
(* the one-character string of an ASCII character, or as "U+XXXX".         *)
(* Offsets into a string are Python's: 0-based, [start, end).              *)
(***************************************************************************)
EXTENDS Integers, Sequences, FiniteSets, TLC

VARIABLES
    op,                 \* the function the caller invoked
    pc,                 \* the statement about to run
    rng,                \* the random source: what its draws may return
    now,                \* the clock: int(time.time())
    text,               \* the text (or url) argument of the invoked function
    insertion_rate,     \* the insertion_rate argument, in hundredths
    content_hash,       \* hashlib.md5(content.encode()).hexdigest()[:8]
    seg,                \* _add_invisible_chars_to_segment: its text argument
    seg_ret,            \* _add_invisible_chars_to_segment: where it returns to
    idx,                \* the character loop's position (characters consumed)
    result,             \* the character loop's result list
    rolled,             \* the last value random.random() returned, in hundredths
    num_chars,          \* the last value random.randint(1, 2) returned
    matches,            \* add_enhanced_invisible_chars: URL_PATTERN.finditer(text)
    mi,                 \* add_enhanced_invisible_chars: the match being handled
    last_index,         \* add_enhanced_invisible_chars: last_index
    processed_segments, \* add_enhanced_invisible_chars: processed_segments
    protected,          \* apply_multi_layer_protection / add_zero_width_to_url: protected
    prefix,             \* apply_multi_layer_protection: prefix
    suffix,             \* apply_multi_layer_protection: suffix
    fingerprint,        \* the last value embed_content_fingerprint returned
    timestamp,          \* the last value add_timestamp_watermark returned
    out                 \* the value the invoked function returned

vars == <<op, pc, rng, now, text, insertion_rate, content_hash, seg, seg_ret, idx,
          result, rolled, num_chars, matches, mi, last_index, processed_segments,
          protected, prefix, suffix, fingerprint, timestamp, out>>

(***************************************************************************)
(* Bounds of the model.                                                    *)
(***************************************************************************)
\* The longest free span handed to _add_invisible_chars_to_segment on its own.
MaxSegLen == 2
\* The longest text, in tokens, handed to add_enhanced_invisible_chars.
MaxTokens == 3
\* The longest text, in tokens, handed to apply_multi_layer_protection.
MaxProtectTokens == 2
\* The longest url handed to add_zero_width_to_url.
MaxUrlLen == 3
\* The longest text handed to add_invisible_chars_to_text.
MaxLegacyLen == 3
\* How many leading digest characters vary between contents.
MaxDigestVary == 2
\* How many seconds the clock runs on from each starting time.
MaxElapsed == 24

(***************************************************************************)
(* The invisible alphabets.                                                *)
(***************************************************************************)
\* The general alphabet with U+2000 (EN QUAD, a visible space) typed for U+200B.
ENHANCED_INVISIBLE_CHARS_Typo ==
    <<"U+2000", "U+200C", "U+200D", "U+FEFF", "U+2060", "U+180E">>

ENHANCED_INVISIBLE_CHARS ==
    <<"U+200B", "U+200C", "U+200D", "U+FEFF", "U+2060", "U+180E">>

INVISIBLE_CHARS == <<"U+200B", "U+200C", "U+200D", "U+FEFF">>

URL_SAFE_INVISIBLE_CHARS == <<"U+200B", "U+200C", "U+200D", "U+2060">>

Range(s) == {s[i] : i \in 1..Len(s)}

(***************************************************************************)
(* Strings.                                                                *)
(***************************************************************************)
\* text[a:b]
Slice(s, a, b) == SubSeq(s, a + 1, b)

RECURSIVE Join(_)
\* ''.join(parts)
Join(parts) ==
    IF parts = <<>> THEN <<>> ELSE Head(parts) \o Join(Tail(parts))

\* char * count
Repeat(c, count) == [i \in 1..count |-> c]

AsciiLetters ==
    {"a", "b", "c", "d", "e", "f", "g", "h", "i", "j", "k", "l", "m",
     "n", "o", "p", "q", "r", "s", "t", "u", "v", "w", "x", "y", "z",
     "A", "B", "C", "D", "E", "F", "G", "H", "I", "J", "K", "L", "M",
     "N", "O", "P", "Q", "R", "S", "T", "U", "V", "W", "X", "Y", "Z"}

AsciiDigits == {"0", "1", "2", "3", "4", "5", "6", "7", "8", "9"}

\* str.isdigit, on the codepoints of the model
IsDigit(c) == c \in AsciiDigits

\* str.isalnum: letters and digits; U+4E2D is a CJK letter
IsAlnum(c) == c \in AsciiLetters \cup AsciiDigits \cup {"U+4E2D"}

\* what the pattern's \s matches: the space, and U+3000 (ideographic space).
\* No invisible codepoint is whitespace.
IsSpace(c) == c \in {" ", "U+3000"}

(***************************************************************************)
(* The random source.  rng.zero: every draw returns its least value.       *)
(* rng.picks: the index draws random.choice may make (taken modulo the     *)
(* length of the sequence it chooses from).                                *)
(***************************************************************************)
\* The values of random.random() that are told apart: each rate r used by the
\* code or passed by a caller has r - 0.01 and r among them.
RandomDraws == {0, 29, 30, 39, 40, 59, 60, 99}

\* random.random(), in hundredths
Random == IF rng.zero THEN {0} ELSE RandomDraws

\* random.randint(a, b)
RandInt(a, b) == IF rng.zero THEN {a} ELSE a..b

\* random.choice(choices)
Choice(choices) ==
    IF rng.zero THEN {choices[1]}
    ELSE {choices[(k % Len(choices)) + 1] : k \in rng.picks}

ZeroSource == [zero |-> TRUE, picks |-> {0}]

SystemSource(picks) == [zero |-> FALSE, picks |-> picks]

(***************************************************************************)
(* The state before any call, and a call's return.                         *)
(***************************************************************************)
Idle(f, source, t, txt, rate, digest) ==
    /\ op = f
    /\ pc = f
    /\ rng = source
    /\ now = t
    /\ text = txt
    /\ insertion_rate = rate
    /\ content_hash = digest
    /\ seg = <<>>
    /\ seg_ret = "caller"
    /\ idx = 0
    /\ result = <<>>
    /\ rolled = 0
    /\ num_chars = 0
    /\ matches = <<>>
    /\ mi = 0
    /\ last_index = 0
    /\ processed_segments = <<>>
    /\ protected = <<>>
    /\ prefix = <<>>
    /\ suffix = <<>>
    /\ fingerprint = <<>>
    /\ timestamp = <<>>
    /\ out = <<>>

inputs == <<op, rng, now, text, insertion_rate, content_hash>>

(***************************************************************************)
(* _add_invisible_chars_to_segment                                         *)
(***************************************************************************)
\* The rates without the vowels' branch.
InsertionRate_NoVowels(char) ==
    IF char \in {"/", ".", ":", "-"} THEN 60
    ELSE IF IsDigit(char) THEN 40
    ELSE 40

\* lines 51-57, in hundredths
InsertionRate(char) ==
    IF char \in {"/", ".", ":", "-"} THEN 60
    ELSE IF char \in {"a", "e", "i", "o", "u", "A", "E", "I", "O", "U"} THEN 30
    ELSE IF IsDigit(char) THEN 40
    ELSE 40

\* line 59: random.random() < insertion_rate
SegmentFires(r, char) == r < InsertionRate(char)

\* line 47, when the caller invokes the function itself.
SegmentStart ==
    /\ pc = "_add_invisible_chars_to_segment"
    /\ seg' = text
    /\ seg_ret' = "caller"
    /\ idx' = 0
    /\ result' = <<>>
    /\ pc' = "segment"
    /\ UNCHANGED <<inputs, rolled, num_chars, matches, mi, last_index,
                   processed_segments, protected, prefix, suffix, fingerprint,
                   timestamp, out>>

\* lines 48-63: one pass of the loop over the segment's characters.
SegmentChar ==
    /\ pc = "segment"
    /\ idx < Len(seg)
    /\ LET char == seg[idx + 1] IN
       \E r \in Random :
          /\ rolled' = r
          /\ IF SegmentFires(r, char)
             THEN \E n \in RandInt(1, 2) :
                  \E c1 \in Choice(ENHANCED_INVISIBLE_CHARS) :
                  \E c2 \in Choice(ENHANCED_INVISIBLE_CHARS) :
                     /\ num_chars' = n
                     /\ result' = result \o <<char>> \o
                                  (IF n = 1 THEN <<c1>> ELSE <<c1, c2>>)
             ELSE /\ num_chars' = num_chars
                  /\ result' = Append(result, char)
    /\ idx' = idx + 1
    /\ UNCHANGED <<inputs, pc, seg, seg_ret, matches, mi, last_index,
                   processed_segments, protected, prefix, suffix, fingerprint,
                   timestamp, out>>

\* return ''.join(result), to the caller or into add_enhanced_invisible_chars.
SegmentReturn ==
    /\ pc = "segment"
    /\ idx = Len(seg)
    /\ CASE seg_ret = "caller" ->
              /\ out' = result
              /\ pc' = "done"
              /\ UNCHANGED processed_segments
         [] seg_ret = "safe_segment" ->
              /\ processed_segments' = Append(processed_segments, result)
              /\ pc' = "enhanced_url"
              /\ UNCHANGED out
         [] seg_ret = "tail_segment" ->
              /\ processed_segments' = Append(processed_segments, result)
              /\ pc' = "enhanced_join"
              /\ UNCHANGED out
    /\ UNCHANGED <<inputs, seg, seg_ret, idx, result, rolled, num_chars, matches,
                   mi, last_index, protected, prefix, suffix, fingerprint,
                   timestamp>>

(***************************************************************************)
(* URL_PATTERN = re.compile(r"(https?://[^\s]+)")                          *)
(***************************************************************************)
HttpScheme == <<"h", "t", "t", "p", ":", "/", "/">>

HttpsScheme == <<"h", "t", "t", "p", "s", ":", "/", "/">>

\* whether the literal lit stands at offset p of s
HasAt(s, p, lit) == p + Len(lit) <= Len(s) /\ Slice(s, p, p + Len(lit)) = lit

\* whether [^\s] matches at offset q of s
NonSpaceAt(s, q) == q < Len(s) /\ ~IsSpace(s[q + 1])

\* The offset at which [^\s]+ starts when the pattern matches at offset p, or
\* -1 when it does not match there: "s?" first takes the "s".
BodyStart(s, p) ==
    IF HasAt(s, p, HttpsScheme) /\ NonSpaceAt(s, p + Len(HttpsScheme))
    THEN p + Len(HttpsScheme)
    ELSE IF HasAt(s, p, HttpScheme) /\ NonSpaceAt(s, p + Len(HttpScheme))
    THEN p + Len(HttpScheme)
    ELSE -1

\* The run of a lazy [^\s]+?: one character.
RunEnd_Lazy(s, q) == q + 1

RECURSIVE RunEnd(_, _)
\* where the greedy [^\s]+ that starts at offset q ends
RunEnd(s, q) == IF NonSpaceAt(s, q) THEN RunEnd(s, q + 1) ELSE q

RECURSIVE FindIterFrom(_, _)
\* the matches found scanning from offset p, left to right, non-overlapping
FindIterFrom(s, p) ==
    IF p >= Len(s) THEN <<>>
    ELSE IF BodyStart(s, p) >= 0
    THEN LET e == RunEnd(s, BodyStart(s, p)) IN
         <<[start |-> p, end |-> e]>> \o FindIterFrom(s, e)
    ELSE FindIterFrom(s, p + 1)

\* URL_PATTERN.finditer(text): each match's start() and end()
FindIter(s) == FindIterFrom(s, 0)

(***************************************************************************)
(* add_enhanced_invisible_chars                                            *)
(***************************************************************************)
\* lines 72-78: the guard, and the start of the loop over the matches.
EnhancedStart ==
    /\ pc = "add_enhanced_invisible_chars"
    /\ IF text = <<>>
       THEN /\ IF op = "apply_multi_layer_protection"
               THEN protected' = text /\ pc' = "prefix" /\ UNCHANGED out
               ELSE out' = text /\ pc' = "done" /\ UNCHANGED protected
            /\ UNCHANGED <<matches, mi, last_index, processed_segments>>
       ELSE /\ matches' = FindIter(text)
            /\ mi' = 1
            /\ last_index' = 0
            /\ processed_segments' = <<>>
            /\ pc' = "enhanced_match"
            /\ UNCHANGED <<out, protected>>
    /\ UNCHANGED <<inputs, seg, seg_ret, idx, result, rolled, num_chars, prefix,
                   suffix, fingerprint, timestamp>>

\* lines 79-81: the free span before the match.
EnhancedSafeSegment ==
    /\ pc = "enhanced_match"
    /\ mi <= Len(matches)
    /\ LET safe_segment == Slice(text, last_index, matches[mi].start) IN
       IF safe_segment # <<>>
       THEN /\ seg' = safe_segment
            /\ seg_ret' = "safe_segment"
            /\ idx' = 0
            /\ result' = <<>>
            /\ pc' = "segment"
       ELSE /\ pc' = "enhanced_url"
            /\ UNCHANGED <<seg, seg_ret, idx, result>>
    /\ UNCHANGED <<inputs, rolled, num_chars, matches, mi, last_index,
                   processed_segments, protected, prefix, suffix, fingerprint,
                   timestamp, out>>

\* lines 83-84: the match itself.
EnhancedUrl ==
    /\ pc = "enhanced_url"
    /\ processed_segments' =
          Append(processed_segments, Slice(text, matches[mi].start, matches[mi].end))
    /\ last_index' = matches[mi].end
    /\ mi' = mi + 1
    /\ pc' = "enhanced_match"
    /\ UNCHANGED <<inputs, seg, seg_ret, idx, result, rolled, num_chars, matches,
                   protected, prefix, suffix, fingerprint, timestamp, out>>

\* lines 86-88: the free span after the last match.
EnhancedTailSegment ==
    /\ pc = "enhanced_match"
    /\ mi > Len(matches)
    /\ LET tail_segment == Slice(text, last_index, Len(text)) IN
       IF tail_segment # <<>>
       THEN /\ seg' = tail_segment
            /\ seg_ret' = "tail_segment"
            /\ idx' = 0
            /\ result' = <<>>
            /\ pc' = "segment"
       ELSE /\ pc' = "enhanced_join"
            /\ UNCHANGED <<seg, seg_ret, idx, result>>
    /\ UNCHANGED <<inputs, rolled, num_chars, matches, mi, last_index,
                   processed_segments, protected, prefix, suffix, fingerprint,
                   timestamp, out>>

\* lines 90-93: the return value.
EnhancedReturn ==
    /\ pc = "enhanced_join"
    /\ LET value == IF processed_segments = <<>> THEN <<>>
                    ELSE Join(processed_segments) IN
       IF op = "apply_multi_layer_protection"
       THEN protected' = value /\ pc' = "prefix" /\ UNCHANGED out
       ELSE out' = value /\ pc' = "done" /\ UNCHANGED protected
    /\ UNCHANGED <<inputs, seg, seg_ret, idx, result, rolled, num_chars, matches,
                   mi, last_index, processed_segments, prefix, suffix,
                   fingerprint, timestamp>>

(***************************************************************************)
(* add_zero_width_to_url                                                   *)
(***************************************************************************)
\* The test of line 110 without its look at next_char.
BetweenAlnum_LeftOnly(char, next_char) == IsAlnum(char)

\* line 110
BetweenAlnum(char, next_char) == IsAlnum(char) /\ IsAlnum(next_char)

\* line 111: random.random() < insertion_rate
UrlFires(r, rate) == r < rate

\* lines 98-101: the guard, and the start of the loop.
UrlStart ==
    /\ pc = "add_zero_width_to_url"
    /\ IF text = <<>>
       THEN out' = text /\ pc' = "done" /\ UNCHANGED <<protected, idx>>
       ELSE protected' = <<>> /\ idx' = 0 /\ pc' = "url_loop" /\ UNCHANGED out
    /\ UNCHANGED <<inputs, seg, seg_ret, result, rolled, num_chars, matches, mi,
                   last_index, processed_segments, prefix, suffix, fingerprint,
                   timestamp>>

\* lines 102-112: one pass of the loop over enumerate(url).
UrlChar ==
    /\ pc = "url_loop"
    /\ idx < Len(text)
    /\ LET char == text[idx + 1] IN
       IF idx + 1 < Len(text) /\ BetweenAlnum(char, text[idx + 2])
       THEN \E r \in Random :
               /\ rolled' = r
               /\ IF UrlFires(r, insertion_rate)
                  THEN \E c \in Choice(URL_SAFE_INVISIBLE_CHARS) :
                          protected' = protected \o <<char, c>>
                  ELSE protected' = Append(protected, char)
       ELSE /\ protected' = Append(protected, char)
            /\ UNCHANGED rolled
    /\ idx' = idx + 1
    /\ UNCHANGED <<inputs, pc, seg, seg_ret, result, num_chars, matches, mi,
                   last_index, processed_segments, prefix, suffix, fingerprint,
                   timestamp, out>>

\* line 114
UrlReturn ==
    /\ pc = "url_loop"
    /\ idx = Len(text)
    /\ out' = protected
    /\ pc' = "done"
    /\ UNCHANGED <<inputs, seg, seg_ret, idx, result, rolled, num_chars, matches,
                   mi, last_index, processed_segments, protected, prefix, suffix,
                   fingerprint, timestamp>>

(***************************************************************************)
(* embed_content_fingerprint                                               *)
(***************************************************************************)
\* char_map.get(c, '\u200B')
char_map(c) ==
    CASE c = "0" -> <<"U+200B">>
      [] c = "1" -> <<"U+200C">>
      [] c = "2" -> <<"U+200D">>
      [] c = "3" -> <<"U+2060">>
      [] c = "4" -> <<"U+FEFF">>
      [] c = "5" -> <<"U+180E">>
      [] c = "6" -> <<"U+200B", "U+200C">>
      [] c = "7" -> <<"U+200B", "U+200D">>
      [] c = "8" -> <<"U+200C", "U+200D">>
      [] c = "9" -> <<"U+200D", "U+200C">>
      [] c = "a" -> <<"U+200B", "U+2060">>
      [] c = "b" -> <<"U+200C", "U+2060">>
      [] c = "c" -> <<"U+200D", "U+2060">>
      [] c = "d" -> <<"U+200B", "U+180E">>
      [] c = "e" -> <<"U+200C", "U+180E">>
      [] c = "f" -> <<"U+200D", "U+180E">>
      [] OTHER -> <<"U+200B">>

\* The function of the digest's first 8 characters that the code computes
\* (hashlib's MD5 itself is not modelled: a content is given by its digest).
embed_content_fingerprint(digest) ==
    Join([i \in 1..Len(digest) |-> char_map(digest[i])])

(***************************************************************************)
(* add_timestamp_watermark                                                 *)
(***************************************************************************)
DigitChars == <<"0", "1", "2", "3", "4", "5", "6", "7", "8", "9">>

RECURSIVE Str(_)
\* str(n), n >= 0
Str(n) ==
    IF n < 10 THEN <<DigitChars[n + 1]>>
    ELSE Append(Str(n \div 10), DigitChars[(n % 10) + 1])

\* int(digit)
int(digit) == CHOOSE d \in 0..9 : DigitChars[d + 1] = digit

\* s[-6:-1]: the slice without the last digit.
LastSix_ButOne(s) ==
    IF Len(s) <= 6 THEN SubSeq(s, 1, Len(s) - 1)
    ELSE SubSeq(s, Len(s) - 5, Len(s) - 1)

\* s[-6:]
LastSix(s) == IF Len(s) <= 6 THEN s ELSE SubSeq(s, Len(s) - 5, Len(s))

\* lines 142-144: what one digit adds to invisible_timestamp
DigitPattern(digit) ==
    LET char_count == (int(digit) % 3) + 1
        base_char == ENHANCED_INVISIBLE_CHARS[
                        (int(digit) % Len(ENHANCED_INVISIBLE_CHARS)) + 1]
    IN  Append(Repeat(base_char, char_count), "U+200C")

\* The function of the clock that the code computes.
add_timestamp_watermark(t) ==
    LET stamp == LastSix(Str(t)) IN
    Join([i \in 1..Len(stamp) |-> DigitPattern(stamp[i])])

(***************************************************************************)
(* apply_multi_layer_protection                                            *)
(***************************************************************************)
\* generate_random_invisible_sequence: the values it may return
generate_random_invisible_sequence(min_len, max_len) ==
    UNION {[1..length -> Choice(ENHANCED_INVISIBLE_CHARS)] :
              length \in RandInt(min_len, max_len)}

\* line 159: prefix + protected + suffix
Wrap(pre, body, suf) == pre \o body \o suf

\* The layers with the timestamp put first.
Layers_TimestampFirst(fp, ts, body) == ts \o fp \o body

\* line 168: fingerprint + timestamp + protected
Layers(fp, ts, body) == fp \o ts \o body

\* line 154: the call of add_enhanced_invisible_chars
ProtectStart ==
    /\ pc = "apply_multi_layer_protection"
    /\ pc' = "add_enhanced_invisible_chars"
    /\ UNCHANGED <<inputs, seg, seg_ret, idx, result, rolled, num_chars, matches,
                   mi, last_index, processed_segments, protected, prefix, suffix,
                   fingerprint, timestamp, out>>

\* line 157
ProtectPrefix ==
    /\ pc = "prefix"
    /\ prefix' \in generate_random_invisible_sequence(2, 5)
    /\ pc' = "suffix"
    /\ UNCHANGED <<inputs, seg, seg_ret, idx, result, rolled, num_chars, matches,
                   mi, last_index, processed_segments, protected, suffix,
                   fingerprint, timestamp, out>>

\* lines 158-159
ProtectSuffix ==
    /\ pc = "suffix"
    /\ suffix' \in generate_random_invisible_sequence(2, 5)
    /\ protected' = Wrap(prefix, protected, suffix')
    /\ pc' = "layers"
    /\ UNCHANGED <<inputs, seg, seg_ret, idx, result, rolled, num_chars, matches,
                   mi, last_index, processed_segments, prefix, fingerprint,
                   timestamp, out>>

\* lines 162-170: the fingerprint, the timestamp (the clock is read here) and
\* the returned concatenation.
ProtectReturn ==
    /\ pc = "layers"
    /\ fingerprint' = embed_content_fingerprint(content_hash)
    /\ timestamp' = add_timestamp_watermark(now)
    /\ out' = Layers(fingerprint', timestamp', protected)
    /\ pc' = "done"
    /\ UNCHANGED <<inputs, seg, seg_ret, idx, result, rolled, num_chars, matches,
                   mi, last_index, processed_segments, protected, prefix, suffix>>

(***************************************************************************)
(* add_invisible_chars_to_text                                             *)
(***************************************************************************)
\* The comparison of line 191 turned around.
LegacyFires_Inverted(r, rate) == r > rate

\* line 191: random.random() < insertion_rate
LegacyFires(r, rate) == r < rate

\* lines 184-187: the guard, and the start of the loop.
LegacyStart ==
    /\ pc = "add_invisible_chars_to_text"
    /\ IF text = <<>>
       THEN out' = text /\ pc' = "done" /\ UNCHANGED <<result, idx>>
       ELSE result' = <<>> /\ idx' = 0 /\ pc' = "legacy_loop" /\ UNCHANGED out
    /\ UNCHANGED <<inputs, seg, seg_ret, rolled, num_chars, matches, mi,
                   last_index, processed_segments, protected, prefix, suffix,
                   fingerprint, timestamp>>

\* lines 188-194: one pass of the loop over the text's characters.
LegacyChar ==
    /\ pc = "legacy_loop"
    /\ idx < Len(text)
    /\ LET char == text[idx + 1] IN
       \E r \in Random :
          /\ rolled' = r
          /\ IF LegacyFires(r, insertion_rate)
             THEN \E invisible_char \in Choice(INVISIBLE_CHARS) :
                     result' = result \o <<char, invisible_char>>
             ELSE result' = Append(result, char)
    /\ idx' = idx + 1
    /\ UNCHANGED <<inputs, pc, seg, seg_ret, num_chars, matches, mi, last_index,
                   processed_segments, protected, prefix, suffix, fingerprint,
                   timestamp, out>>

\* line 196
LegacyReturn ==
    /\ pc = "legacy_loop"
    /\ idx = Len(text)
    /\ out' = result
    /\ pc' = "done"
    /\ UNCHANGED <<inputs, seg, seg_ret, idx, result, rolled, num_chars, matches,
                   mi, last_index, processed_segments, protected, prefix, suffix,
                   fingerprint, timestamp>>

(***************************************************************************)
(* The callers' inputs.                                                    *)
(***************************************************************************)
\* all strings over the codepoints chars, up to length n
Strings(chars, n) == UNION {[1..k -> chars] : k \in 0..n}

RECURSIVE TokenTexts(_, _)
\* all concatenations of up to n of the tokens
TokenTexts(tokens, n) ==
    IF n = 0 THEN {<<>>}
    ELSE LET shorter == TokenTexts(tokens, n - 1) IN
         shorter \cup {t \o k : t \in shorter, k \in tokens}

\* One character of each class _add_invisible_chars_to_segment tells apart (two
\* of the punctuation, a vowel of each case, a digit, another letter).
SegChars == {"/", "-", "e", "U", "7", "x"}

\* What texts are made of: two URLs, a letter, whitespace, and a codepoint that
\* is invisible already.
Tokens ==
    {HttpScheme \o <<"a">>, HttpsScheme \o <<"b">>, <<"e">>, <<" ">>, <<"U+200B">>}

\* What urls are made of: letters, a digit, punctuation, an invisible codepoint.
UrlChars == {"a", "7", "/", "?", "U+4E2D", "U+200B"}

UrlRates == {0, 40, 100}

LegacyChars == {"a", "b", "c"}

LegacyRates == {0, 30, 100}

HexDigits == {"0", "1", "2", "3", "4", "5", "6", "7",
              "8", "9", "a", "b", "c", "d", "e", "f"}

\* hashlib.md5(b"hello").hexdigest()[:8]
HelloDigest == <<"5", "d", "4", "1", "4", "0", "2", "a">>

\* hashlib.md5(b"content-22458").hexdigest()[:8]
ContentDigest == <<"a", "b", "0", "1", "1", "c", "8", "f">>

\* The digests of the contents: ContentDigest, and the ones that differ from it
\* in some of the MaxDigestVary characters that follow its first four.
Digests ==
    {SubSeq(ContentDigest, 1, 4) \o middle \o
     SubSeq(ContentDigest, 5 + MaxDigestVary, Len(ContentDigest)) :
        middle \in [1..MaxDigestVary -> HexDigits]}

\* Times at which the clock starts: an ordinary one, and ones shortly before a
\* carry into the 3rd, 4th, 6th, 7th and 10th digit from the right.
ClockStarts ==
    {1762249590, 1762249890, 1762009990, 1762999990, 1999999990}

\* The times the clock shows.
Clock == UNION {t..(t + MaxElapsed) : t \in ClockStarts}

Epoch == CHOOSE t \in ClockStarts : \A u \in ClockStarts : t <= u

(***************************************************************************)
(* Repeated calls of the two encoders.                                     *)
(***************************************************************************)
\* A caller reads a fingerprint for some content.
FingerprintCall ==
    /\ pc = "embed_content_fingerprint"
    /\ \E digest \in Digests :
          /\ content_hash' = digest
          /\ fingerprint' = embed_content_fingerprint(digest)
    /\ out' = fingerprint'
    /\ UNCHANGED <<op, pc, rng, now, text, insertion_rate, seg, seg_ret, idx,
                   result, rolled, num_chars, matches, mi, last_index,
                   processed_segments, protected, prefix, suffix, timestamp>>

\* Time passes and a caller reads a timestamp.
TimestampCall ==
    /\ pc = "add_timestamp_watermark"
    /\ \E t \in Clock :
          /\ t >= now
          /\ now' = t
          /\ timestamp' = add_timestamp_watermark(t)
    /\ out' = timestamp'
    /\ UNCHANGED <<op, pc, rng, text, insertion_rate, content_hash, seg, seg_ret,
                   idx, result, rolled, num_chars, matches, mi, last_index,
                   processed_segments, protected, prefix, suffix, fingerprint>>

(***************************************************************************)
(* The specifications: one per function a caller invokes.                  *)
(***************************************************************************)
SegmentInit ==
    \E txt \in Strings(SegChars, MaxSegLen) :
       Idle("_add_invisible_chars_to_segment", SystemSource({0, 5}), Epoch, txt,
            0, HelloDigest)

SegmentNext == SegmentStart \/ SegmentChar \/ SegmentReturn

SegmentSpec == SegmentInit /\ [][SegmentNext]_vars

EnhancedInit ==
    \E txt \in TokenTexts(Tokens, MaxTokens) :
       Idle("add_enhanced_invisible_chars", SystemSource({0, 5}), Epoch, txt,
            0, HelloDigest)

EnhancedNext ==
    \/ EnhancedStart
    \/ EnhancedSafeSegment
    \/ EnhancedUrl
    \/ EnhancedTailSegment
    \/ EnhancedReturn
    \/ SegmentChar
    \/ SegmentReturn

EnhancedSpec == EnhancedInit /\ [][EnhancedNext]_vars

ProtectInit ==
    \E txt \in TokenTexts(Tokens, MaxProtectTokens) :
    \E pick \in {0, 3, 5} :
    \E t \in {Epoch, Epoch + 6} :
    \E digest \in {HelloDigest, ContentDigest} :
       Idle("apply_multi_layer_protection", SystemSource({pick}), t, txt, 0,
            digest)

ProtectNext ==
    \/ ProtectStart
    \/ ProtectPrefix
    \/ ProtectSuffix
    \/ ProtectReturn
    \/ EnhancedNext

ProtectSpec == ProtectInit /\ [][ProtectNext]_vars

UrlInit ==
    \E url \in Strings(UrlChars, MaxUrlLen) :
    \E rate \in UrlRates :
       Idle("add_zero_width_to_url", SystemSource(0..3), Epoch, url, rate,
            HelloDigest)

UrlNext == UrlStart \/ UrlChar \/ UrlReturn

UrlSpec == UrlInit /\ [][UrlNext]_vars

LegacyInit ==
    \E txt \in Strings(LegacyChars, MaxLegacyLen) :
    \E rate \in LegacyRates :
    \E source \in {ZeroSource, SystemSource(0..3)} :
       Idle("add_invisible_chars_to_text", source, Epoch, txt, rate, HelloDigest)

LegacyNext == LegacyStart \/ LegacyChar \/ LegacyReturn

LegacySpec == LegacyInit /\ [][LegacyNext]_vars

FingerprintInit ==
    \E digest \in Digests :
       Idle("embed_content_fingerprint", SystemSource({0}), Epoch, <<>>, 0, digest)

FingerprintSpec == FingerprintInit /\ [][FingerprintCall]_vars

TimestampInit ==
    \E t \in ClockStarts :
       Idle("add_timestamp_watermark", SystemSource({0}), t, <<>>, 0, HelloDigest)

TimestampSpec == TimestampInit /\ [][TimestampCall]_vars

(***************************************************************************)
(* What the properties are stated with.                                    *)
(***************************************************************************)
\* Every codepoint of an invisible alphabet.
InvisibleAlphabet == {"U+200B", "U+200C", "U+200D", "U+FEFF", "U+2060", "U+180E"}

GeneralAlphabet == InvisibleAlphabet

UrlSafeAlphabet == {"U+200B", "U+200C", "U+200D", "U+2060"}

IsVisible(c) == c \notin InvisibleAlphabet

\* s with every codepoint of an invisible alphabet removed
Strip(s) == SelectSeq(s, IsVisible)

Done == pc = "done"

(***************************************************************************)
(* C10: _add_invisible_chars_to_segment visits the characters left to      *)
(* right and retains each; after a character it appends nothing when the   *)
(* draw is not below the character's rate and 1 or 2 general-alphabet      *)
(* codepoints when it is; the rate is 0.6 for / . : -, else 0.3 for an     *)
(* ASCII vowel, else 0.4.  So the result has no run of more than 2         *)
(* inserted codepoints and none before the first character.                *)
(***************************************************************************)
ClaimedRate(c) ==
    IF c \in {"/", ".", ":", "-"} THEN 60
    ELSE IF c \in {"a", "e", "i", "o", "u", "A", "E", "I", "O", "U"} THEN 30
    ELSE IF c \in AsciiDigits THEN 40
    ELSE 40

\* what one pass of the loop does to result
C10_Pass ==
    (pc = "segment" /\ idx' = idx + 1) =>
        LET char == seg[idx + 1]
            added == SubSeq(result', Len(result) + 2, Len(result'))
        IN  /\ Len(result') > Len(result)
            /\ SubSeq(result', 1, Len(result)) = result
            /\ result'[Len(result) + 1] = char
            /\ IF rolled' < ClaimedRate(char)
               THEN Len(added) \in {1, 2} /\ Range(added) \subseteq GeneralAlphabet
               ELSE added = <<>>

\* what the returned string looks like (the segments have no invisible
\* codepoint of their own)
C10_Returned ==
    Done =>
        /\ Strip(out) = text
        /\ out # <<>> => out[1] = text[1]
        /\ \A i \in 1..(Len(out) - 2) :
              ~({out[i], out[i + 1], out[i + 2]} \subseteq InvisibleAlphabet)

\* C10: every pass of the loop keeps what result held, appends the character
\* and then nothing (draw not below the character's rate) or 1 or 2
\* general-alphabet codepoints (draw below it); the returned string shows the
\* segment's characters in order, starts with the first of them and has no run
\* of more than 2 inserted codepoints.
C10_PerCharacterRule == [][C10_Pass]_vars /\ []C10_Returned

\* two codepoints after the ".../" and none after the vowel, on a draw of 0.30
C10_Witness ==
    /\ Done
    /\ text = <<"/", "e">>
    /\ Len(out) = 4
    /\ out[4] = "e"
    /\ rolled = 30

(***************************************************************************)
(* C8: add_zero_width_to_url keeps every character of the url in order     *)
(* and inserts at most one codepoint, of the url-safe alphabet, only       *)
(* between two consecutive alphanumeric characters: never next to another  *)
(* character, before the first or after the last.                          *)
(***************************************************************************)
RECURSIVE UrlEmbeds(_, _)
\* whether o is url with, in some of the places between two consecutive
\* alphanumeric characters, one url-safe codepoint inserted
UrlEmbeds(url, o) ==
    IF url = <<>> THEN o = <<>>
    ELSE /\ o # <<>>
         /\ Head(o) = Head(url)
         /\ \/ UrlEmbeds(Tail(url), Tail(o))
            \/ /\ Len(url) >= 2
               /\ IsAlnum(url[1])
               /\ IsAlnum(url[2])
               /\ Len(o) >= 2
               /\ o[2] \in UrlSafeAlphabet
               /\ UrlEmbeds(Tail(url), Tail(Tail(o)))

\* C8: what add_zero_width_to_url returns is the url with at most one url-safe
\* codepoint inserted in some of the places between two consecutive
\* alphanumeric characters, and nothing inserted anywhere else.
C8_UrlPlacement == Done => UrlEmbeds(text, out)

\* an insertion between "a" and "7", none around the "/"
C8_Witness ==
    /\ Done
    /\ insertion_rate = 40
    /\ text = <<"a", "7", "/">>
    /\ out = <<"a", "U+2060", "7", "/">>

(***************************************************************************)
(* C9: add_invisible_chars_to_text("abc") with the default rate 0.3 and a  *)
(* random source that returns zero on every draw.                          *)
(***************************************************************************)
Abc == <<"a", "b", "c">>

C9_Case ==
    /\ Done
    /\ rng = ZeroSource
    /\ text = Abc
    /\ insertion_rate = 30

\* C9, as claimed: with a forced-zero random source and the rate 0.3,
\* add_invisible_chars_to_text("abc") returns "abc" unchanged.
C9_ForcedZeroUnchanged == C9_Case => out = Abc

\* C9, amended: with a forced-zero random source and the rate 0.3,
\* add_invisible_chars_to_text("abc") returns "abc" with U+200B after each of
\* its characters (0 < 0.3, so an insertion fires after every character, and a
\* zero draw chooses the alphabet's first codepoint).
C9_ForcedZeroInsertsEverywhere ==
    C9_Case => out = <<"a", "U+200B", "b", "U+200B", "c", "U+200B">>

C9_Witness == C9_Case /\ Len(out) = 6

(***************************************************************************)
(* The URL matches of a text, as the pattern is described: http:// or      *)
(* https:// followed by one or more non-whitespace characters, scanned     *)
(* left to right, not overlapping, up to the next whitespace.              *)
(***************************************************************************)
NoSpaceIn(s, a, b) == \A i \in (a + 1)..b : ~IsSpace(s[i])

UrlStartsAt(s, p) ==
    \E scheme \in {HttpScheme, HttpsScheme} :
       /\ p + Len(scheme) < Len(s)
       /\ SubSeq(s, p + 1, p + Len(scheme)) = scheme
       /\ ~IsSpace(s[p + Len(scheme) + 1])

IsUrlMatch(s, p, e) ==
    /\ UrlStartsAt(s, p)
    /\ p < e
    /\ NoSpaceIn(s, p, e)
    /\ e = Len(s) \/ IsSpace(s[e + 1])
    /\ \A q \in 0..(p - 1) : ~(UrlStartsAt(s, q) /\ NoSpaceIn(s, q, p))

\* whether o[at : at + len(url)] stands for text[p:e] in o: what precedes it
\* and what follows it in o show the characters that do so in the text
SpanStandsAt(o, at, p, e) ==
    /\ at + (e - p) <= Len(o)
    /\ Strip(Slice(o, 0, at)) = Strip(Slice(text, 0, p))
    /\ Strip(Slice(o, at + (e - p), Len(o))) = Strip(Slice(text, e, Len(text)))

(***************************************************************************)
(* C2: the embedder never mutates a URL match of the text: its span in the *)
(* output of add_enhanced_invisible_chars has no codepoint inserted        *)
(* between its characters and, stripped of invisible codepoints, equals    *)
(* the URL.                                                                *)
(***************************************************************************)
\* C2, as claimed: every URL match of the text has a span in the output that
\* is the URL with nothing inserted and that, stripped of invisible codepoints,
\* equals the URL.
C2_UrlSpanStripsToUrl ==
    Done =>
        \A p \in 0..Len(text) : \A e \in 0..Len(text) :
            IsUrlMatch(text, p, e) =>
                \E at \in 0..Len(out) :
                    /\ SpanStandsAt(out, at, p, e)
                    /\ Slice(out, at, at + (e - p)) = Slice(text, p, e)
                    /\ Strip(Slice(out, at, at + (e - p))) = Slice(text, p, e)

\* C2, amended: every URL match of the text has a span in the output that is
\* the URL, codepoint for codepoint, so that stripped of invisible codepoints it
\* is the stripped URL (the URL itself when it has no invisible codepoint of
\* its own).
C2_UrlSpanUntouched ==
    Done =>
        \A p \in 0..Len(text) : \A e \in 0..Len(text) :
            IsUrlMatch(text, p, e) =>
                \E at \in 0..Len(out) :
                    /\ SpanStandsAt(out, at, p, e)
                    /\ Slice(out, at, at + (e - p)) = Slice(text, p, e)
                    /\ Strip(Slice(out, at, at + (e - p))) =
                          Strip(Slice(text, p, e))

\* "e https://b" with codepoints inserted after the "e" and after the " "
C2_Witness ==
    /\ Done
    /\ op = "add_enhanced_invisible_chars"
    /\ text = <<"e", " ">> \o HttpsScheme \o <<"b">>
    /\ IsUrlMatch(text, 2, Len(text))
    /\ Len(out) = Len(text) + 3

(***************************************************************************)
(* C1: removing every codepoint of an invisible alphabet from the output   *)
(* of apply_multi_layer_protection gives back the input text.              *)
(***************************************************************************)
\* C1, as claimed: the output of apply_multi_layer_protection, stripped of
\* invisible codepoints, is the input text.
C1_StripGivesInput == Done => Strip(out) = text

\* C1, amended: the output of apply_multi_layer_protection, stripped of
\* invisible codepoints, is the input text stripped of the invisible codepoints
\* it had (the input text itself when it had none).
C1_StripGivesStrippedInput == Done => Strip(out) = Strip(text)

\* "ehttps://b", with two codepoints inserted after the "e"
C1_Witness ==
    /\ Done
    /\ op = "apply_multi_layer_protection"
    /\ text = <<"e">> \o HttpsScheme \o <<"b">>
    /\ Len(processed_segments) = 2
    /\ Len(processed_segments[1]) = 3
    /\ Strip(out) = text

(***************************************************************************)
(* C3: the output of apply_multi_layer_protection is the fingerprint code, *)
(* the timestamp code, a filler, the embedded text and a filler, in that   *)
(* order; each filler has 2 to 5 codepoints, all of the general alphabet.  *)
(***************************************************************************)
IsFiller(f) == Len(f) \in 2..5 /\ Range(f) \subseteq GeneralAlphabet

\* C3: the returned string is fingerprint code, timestamp code, prefix filler,
\* embedded text, suffix filler, in that order, and each filler has 2 to 5
\* codepoints of the general alphabet.
C3_Layering ==
    Done =>
        LET body == Join(processed_segments) IN
        /\ out = embed_content_fingerprint(content_hash) \o
                 add_timestamp_watermark(now) \o prefix \o body \o suffix
        /\ Strip(body) = Strip(text)
        /\ IsFiller(prefix)
        /\ IsFiller(suffix)

\* a shortest and a longest filler around a text with a URL
C3_Witness ==
    /\ Done
    /\ op = "apply_multi_layer_protection"
    /\ text = <<" ">> \o HttpScheme \o <<"a">>
    /\ Len(prefix) = 2
    /\ Len(suffix) = 5
    /\ now = Epoch + 6

(***************************************************************************)
(* C4: apply_multi_layer_protection("", content) returns the empty string. *)
(***************************************************************************)
\* C4: for the empty text, apply_multi_layer_protection returns the empty string.
C4_EmptyGivesEmpty == (Done /\ text = <<>>) => out = <<>>

(***************************************************************************)
(* C5: the fingerprint code is the table entries of the digest's 8         *)
(* characters, in order, and two different digests never have the same     *)
(* fingerprint code.                                                       *)
(***************************************************************************)
C5_Call ==
    /\ Len(content_hash') = 8
    /\ fingerprint' = Join([i \in 1..8 |-> char_map(content_hash'[i])])
    /\ (fingerprint # <<>> /\ content_hash' # content_hash) =>
           fingerprint' # fingerprint

\* C5: every call returns the concatenated table entries of its digest, and a
\* call for a different digest than the one before returns a different code.
C5_FingerprintOneToOne == [][C5_Call]_vars

(***************************************************************************)
(* C6: the timestamp code is, for each of the 6 digits d, the general      *)
(* alphabet's entry at index d mod 6 repeated (d mod 3) + 1 times and then *)
(* U+200C; two different 6-digit strings never have the same code.         *)
(***************************************************************************)
ClaimedDigitCode(d) ==
    [i \in 1..((d % 3) + 2) |->
        IF i = (d % 3) + 2 THEN "U+200C"
        ELSE ENHANCED_INVISIBLE_CHARS[(d % 6) + 1]]

\* the 6 low-order decimal digits of t, left to right
SixDigits(t) == [i \in 1..6 |-> (t \div (10 ^ (6 - i))) % 10]

C6_Call ==
    /\ timestamp' = Join([i \in 1..6 |-> ClaimedDigitCode(SixDigits(now')[i])])
    /\ (timestamp # <<>> /\ SixDigits(now') # SixDigits(now)) =>
           timestamp' # timestamp

\* C6: every call returns the digits' codes as described, and a call at a time
\* with other 6 digits than the one before returns a different code.
C6_TimestampDecodable == [][C6_Call]_vars

(***************************************************************************)
(* C7: when the clock goes from t to t + 1, the timestamp code read at     *)
(* t + 1 differs from the one read at t.                                   *)
(***************************************************************************)
C7_Tick == (timestamp # <<>> /\ now' = now + 1) => timestamp' # timestamp

\* C7: a call one second after another returns a different code.
C7_VariesEachSecond == [][C7_Tick]_vars

\* read just after the 6 digits wrapped around from 999999 to 000000
C7_Witness ==
    /\ timestamp # <<>>
    /\ now % 1000000 = 0
    /\ timestamp = add_timestamp_watermark(now)

====
